---- MODULE Spec2Model ----
(***************************************************************************)
(* Model of public/scripts/script.js (VELOURA landing page): the           *)
(* BaseComponent state container, Cart, Notification, Analytics and the    *)
(* VelouraApp handlers that drive them.                                     *)
(*                                                                         *)
(* Numbers.  JavaScript numbers are modelled as records                    *)
(* [nan |-> BOOLEAN, v |-> Int]; v counts units of 1/Scale, so "199.50"    *)
(* is v = 19950 with Scale = 100.  NaN is [nan |-> TRUE, v |-> 0] and is    *)
(* absorbing for + and *.  The sample price texts have fractions that are  *)
(* exactly representable in binary, so the fixed-point sums coincide with  *)
(* the doubles the script computes.                                        *)
(*                                                                         *)
(* Strings that the code inspects character by character (price texts)     *)
(* are sequences of one-character strings.                                 *)
(***************************************************************************)
EXTENDS Integers, Sequences, FiniteSets, TLC

VARIABLES
    items,          \* Cart.items: sequence of [name, price, quantity]
    totalPrice,     \* Cart.totalPrice
    cartState,      \* Cart.state (BaseComponent snapshot)
    notifications,  \* Notification.notifications: live list
    notifState,     \* Notification.state
    toasts,         \* DOM toast elements created by displayToast, in creation order
    timers,         \* pending setTimeout callbacks, in registration order
    now,            \* Date.now(), in ms since the page was loaded
    events,         \* Analytics.events
    analyticsState, \* Analytics.state
    badge,          \* the #cart-count element
    lastOp,         \* the Cart call or page entry point that returned last
    stateItemsShared, \* Cart.state.items is the same array object as Cart.items
    trackCalls,     \* the number of Analytics.trackEvent calls made so far
    observers,      \* BaseComponent.observers of each component
    calls,          \* the observer invocations made by the last step, in order
    callsLeft,      \* component calls the session may still make; -1: not counted
    form,           \* the form data given to FormValidator.validate and its result
    page,           \* the optional elements of the page and what they hold
    escaped         \* the error the last entry point let escape, "none" if none

vars == <<items, totalPrice, cartState, notifications, notifState, toasts,
          timers, now, events, analyticsState, badge, lastOp,
          stateItemsShared, trackCalls, observers, calls, callsLeft, form,
          page, escaped>>

cartVars == <<items, totalPrice, cartState, stateItemsShared>>
notifVars == <<notifications, notifState, toasts, timers>>
analyticsVars == <<events, analyticsState, trackCalls>>
\* what the calls on the components leave alone
hostVars == <<observers, form, page, escaped>>

----------------------------------------------------------------------------
(* Bounds of the model *)

\* number of fractional decimal digits kept by the fixed-point numbers
FracDigits == 2
\* Cart.addItem is not called once the cart holds this many units
MaxUnits == 3
\* Notification.show is not called once this many records were created
MaxShows == 2
\* calls arrive and single milliseconds are counted up to this clock value;
\* after it only pending callbacks, dismissals and clicks happen
MaxClock == 1
\* Analytics.trackEvent is not called once the log holds this many events
MaxEvents == 3
\* subscribe is not called once a component has this many observers
MaxObservers == 2
\* the component calls of a session in which the calls are counted
MaxCalls == 3
\* a close button is not clicked while this many removals of toasts from the
\* page are pending
MaxPendingCloses == 1

----------------------------------------------------------------------------
(* Numbers *)

RECURSIVE Pow10(_)
Pow10(n) == IF n = 0 THEN 1 ELSE 10 * Pow10(n - 1)

Scale == Pow10(FracDigits)

Num(v) == [nan |-> FALSE, v |-> v]
NaN == [nan |-> TRUE, v |-> 0]
Zero == Num(0)

\* a + b on doubles
Add(a, b) == IF a.nan \/ b.nan THEN NaN ELSE Num(a.v + b.v)
\* a * q where q is an integer count
Times(a, q) == IF a.nan THEN NaN ELSE Num(a.v * q)

DigitChars == <<"0", "1", "2", "3", "4", "5", "6", "7", "8", "9">>
IsDigit(c) == \E d \in 1..10 : DigitChars[d] = c
DigitVal(c) == (CHOOSE d \in 1..10 : DigitChars[d] = c) - 1

\* the number of consecutive digits of s starting at position i
RECURSIVE DigitRun(_, _)
DigitRun(s, i) ==
    IF i <= Len(s) /\ IsDigit(s[i]) THEN 1 + DigitRun(s, i + 1) ELSE 0

\* the value of the digits s[i .. i+n-1] read as a decimal integer
RECURSIVE DigitsValue(_, _, _)
DigitsValue(s, i, n) ==
    IF n = 0 THEN 0
    ELSE 10 * DigitsValue(s, i, n - 1) + DigitVal(s[i + n - 1])

\* parseFloat on a string made of digits, "." and other characters that
\* cannot continue a decimal literal: the longest prefix of the form
\* digits [ "." digits ] or "." digits is converted, anything else is NaN.
parseFloat(s) ==
    LET n1 == DigitRun(s, 1)
        dot == n1 + 1 <= Len(s) /\ s[n1 + 1] = "."
        n2 == IF dot THEN DigitRun(s, n1 + 2) ELSE 0
    IN  IF n1 = 0 /\ n2 = 0 THEN NaN
        ELSE Num(DigitsValue(s, 1, n1) * Scale
                 + (DigitsValue(s, n1 + 2, n2) * Scale) \div Pow10(n2))

----------------------------------------------------------------------------
(* Inputs *)

\* product names found on the page
Names == {"Lamp", "lamp", "Vase"}

\* texts of .product-price elements
PriceTexts ==
    { <<"$", "1", "9", "9", ".", "5", "0">>,
      <<"2", ".", "2", "5">>,
      <<"1", ",", "5", "0", "0">>,
      <<"1", ".", "5", ".", "3">>,
      <<"f", "r", "e", "e">>,
      <<".">> }

IsNumericChar(c) == IsDigit(c) \/ c = "."

\* String(productPrice).replace(/[^0-9.]/g, '')
priceClean(productPrice) == SelectSeq(productPrice, IsNumericChar)

\* the products handleAddToCart passes to Cart.addItem
Products == [name : Names, price : {priceClean(t) : t \in PriceTexts}]

\* no form has been validated
NoForm == [data |-> <<>>, result |-> [isValid |-> TRUE, errors |-> <<>>],
           validated |-> FALSE]

\* a page with none of the optional elements (#products, #email-input,
\* .navbar-custom); email is the value of the input, shadow the navbar's
\* style.boxShadow
NoPage == [products |-> FALSE, emailInput |-> FALSE, navbar |-> FALSE,
           email |-> <<>>, shadow |-> ""]

\* a page with all of them
FullPage == [products |-> TRUE, emailInput |-> TRUE, navbar |-> TRUE,
             email |-> <<>>, shadow |-> ""]

\* the pages the script is loaded into
Pages == {NoPage, FullPage}

----------------------------------------------------------------------------
(* BaseComponent *)

\* { ...this.state, ...newState }
setState_replaces(state, newState) == newState
setState(state, newState) ==
    [k \in DOMAIN state \cup DOMAIN newState |->
        IF k \in DOMAIN newState THEN newState[k] ELSE state[k]]

\* this.state = {} of the constructor
EmptyState == [k \in {} |-> 0]

\* { ...this.state }
getState(state) == [k \in DOMAIN state |-> state[k]]

Components == {"Cart", "Notification", "Analytics"}

\* this.observers = [] of the constructor
NoObservers == [c \in Components |-> <<>>]

\* the functions passed to subscribe; they record what they are given
ObserverIds == {"f", "g"}

\* this.observers.push(observer)
subscribeObservers(component, observer) ==
    [observers EXCEPT ![component] = Append(@, observer)]

\* notify(): this.observers.forEach(observer => observer(this.state)), run
\* by setState once the component's state is the given one
notify_firstOnly(component, state) ==
    IF observers[component] = <<>> THEN <<>>
    ELSE <<[component |-> component, observer |-> observers[component][1],
            state |-> state]>>
notify(component, state) ==
    [i \in 1..Len(observers[component]) |->
        [component |-> component, observer |-> observers[component][i],
         state |-> state]]

\* a counted call uses up one of the calls left
Spend ==
    IF callsLeft < 0 THEN UNCHANGED callsLeft
    ELSE callsLeft > 0 /\ callsLeft' = callsLeft - 1

----------------------------------------------------------------------------
(* Cart *)

\* this.items.find(item => item.name === product.name): the index of the
\* first match, 0 when there is none
find_never(its, name) == 0
find(its, name) ==
    IF \E i \in 1..Len(its) : its[i].name = name
    THEN CHOOSE i \in 1..Len(its) :
            /\ its[i].name = name
            /\ \A j \in 1..(i - 1) : its[j].name # name
    ELSE 0

\* the items after the if/else of addItem
addItemItems_updatesPrice(its, product) ==
    LET i == find(its, product.name)
    IN  IF i # 0
        THEN [its EXCEPT ![i].quantity = @ + 1, ![i].price = product.price]
        ELSE Append(its, [name |-> product.name, price |-> product.price,
                          quantity |-> 1])
addItemItems(its, product) ==
    LET i == find(its, product.name)
    IN  IF i # 0
        THEN [its EXCEPT ![i].quantity = @ + 1]
        ELSE Append(its, [name |-> product.name, price |-> product.price,
                          quantity |-> 1])

\* items.reduce((total, item) => total + parseFloat(item.price) * item.quantity, 0)
RECURSIVE reduceTotal(_, _, _)
reduceTotal(its, i, total) ==
    IF i > Len(its) THEN total
    ELSE reduceTotal(its, i + 1,
                     Add(total, Times(parseFloat(its[i].price), its[i].quantity)))

RECURSIVE reduceTotalNoQuantity(_, _, _)
reduceTotalNoQuantity(its, i, total) ==
    IF i > Len(its) THEN total
    ELSE reduceTotalNoQuantity(its, i + 1, Add(total, parseFloat(its[i].price)))

calculateTotal_noQuantity(its) == reduceTotalNoQuantity(its, 1, Zero)
calculateTotal(its) == reduceTotal(its, 1, Zero)

\* items.reduce((count, item) => count + item.quantity, 0)
RECURSIVE reduceCount(_, _, _)
reduceCount(its, i, count) ==
    IF i > Len(its) THEN count
    ELSE reduceCount(its, i + 1, count + its[i].quantity)

getItemCount_lines(its) == Len(its)
getItemCount(its) == reduceCount(its, 1, 0)

Lower(name) == IF name = "Lamp" THEN "lamp" ELSE name

\* this.items.filter(item => item.name !== productName)
removeItemItems_ignoreCase(its, productName) ==
    SelectSeq(its, LAMBDA item : Lower(item.name) # Lower(productName))
removeItemItems_decrements(its, productName) ==
    SelectSeq([i \in DOMAIN its |->
                  IF its[i].name = productName
                  THEN [its[i] EXCEPT !.quantity = @ - 1] ELSE its[i]],
              LAMBDA item : item.quantity > 0)
removeItemItems(its, productName) ==
    SelectSeq(its, LAMBDA item : item.name # productName)

getCartData(its, total) ==
    [items |-> its, totalPrice |-> total, itemCount |-> getItemCount(its)]

Op(op, name, id) == [op |-> op, name |-> name, id |-> id]

\* the calls without a name or a number
NewOp == Op("new", "", 0)
ClearCartOp == Op("clearCart", "", 0)
SetStateOp == Op("setState", "", 0)
SnapshotAssignOp == Op("snapshot.totalPrice=", "", 0)
HandleViewCartOp == Op("handleViewCart", "", 0)
WindowClearCartOp == Op("window.clearCart", "", 0)
UpdateCartBadgeOp == Op("updateCartBadge", "", 0)
HandleExploreOp == Op("handleExplore", "", 0)
HandleSubscribeOp == Op("handleSubscribe", "", 0)

\* Cart.addItem(product), on the cart's own fields
cart_addItem_publishesFirst(product) ==
    /\ items' = addItemItems(items, product)
    /\ cartState' = setState(cartState,
                             [items |-> items', totalPrice |-> totalPrice])
    /\ totalPrice' = calculateTotal(items')
    /\ stateItemsShared' = TRUE
cart_addItem(product) ==
    /\ items' = addItemItems(items, product)
    /\ totalPrice' = calculateTotal(items')
    /\ cartState' = setState(cartState,
                             [items |-> items', totalPrice |-> totalPrice'])
    /\ stateItemsShared' = TRUE

\* Cart.removeItem(productName)
cart_removeItem(productName) ==
    /\ items' = removeItemItems(items, productName)
    /\ totalPrice' = calculateTotal(items')
    /\ cartState' = setState(cartState,
                             [items |-> items', totalPrice |-> totalPrice'])
    /\ stateItemsShared' = TRUE

\* { items: [], totalPrice: 0 } of clearCart
ClearedState == [items |-> <<>>, totalPrice |-> Zero]

\* Cart.clearCart()
cart_clearCart ==
    /\ items' = <<>>
    /\ totalPrice' = Zero
    /\ cartState' = setState(cartState,
                             ClearedState)
    /\ stateItemsShared' = FALSE

----------------------------------------------------------------------------
(* A Cart on its own *)

InitCart ==
    /\ items = <<>>
    /\ totalPrice = Zero
    /\ cartState = EmptyState
    /\ notifications = <<>>
    /\ notifState = EmptyState
    /\ toasts = <<>>
    /\ timers = <<>>
    /\ now = 0
    /\ events = <<>>
    /\ analyticsState = EmptyState
    /\ badge = [exists |-> FALSE, textContent |-> 0, display |-> ""]
    /\ lastOp = NewOp
    /\ stateItemsShared = FALSE
    /\ trackCalls = 0
    /\ observers = NoObservers
    /\ calls = <<>>
    /\ callsLeft = -1
    /\ form = NoForm
    /\ page = NoPage
    /\ escaped = "none"

addItem(product) ==
    /\ getItemCount(items) < MaxUnits
    /\ cart_addItem(product)
    /\ calls' = notify("Cart", cartState')
    /\ Spend
    /\ lastOp' = Op("addItem", product.name, 0)
    /\ UNCHANGED <<notifVars, now, analyticsVars, badge, hostVars>>

removeItem(productName) ==
    /\ cart_removeItem(productName)
    /\ calls' = notify("Cart", cartState')
    /\ Spend
    /\ lastOp' = Op("removeItem", productName, 0)
    /\ UNCHANGED <<notifVars, now, analyticsVars, badge, hostVars>>

clearCart ==
    /\ cart_clearCart
    /\ calls' = notify("Cart", cartState')
    /\ Spend
    /\ lastOp' = ClearCartOp
    /\ UNCHANGED <<notifVars, now, analyticsVars, badge, hostVars>>

NextCart ==
    \/ \E product \in Products : addItem(product)
    \/ \E productName \in Names : removeItem(productName)
    \/ clearCart

SpecCart == InitCart /\ [][NextCart]_vars

(***************************************************************************)
(* BaseComponent on its own: a caller subscribes observers to the cart and *)
(* calls the setState it inherits with partial states of its own.          *)
(***************************************************************************)

\* the partial states the caller passes to setState
Partials ==
    { [theme |-> "dark"], [theme |-> "light"], [lang |-> "en"],
      [theme |-> "light", lang |-> "fr"], [totalPrice |-> Zero] }

subscribe(component, observer) ==
    /\ Len(observers[component]) < MaxObservers
    /\ observers' = subscribeObservers(component, observer)
    /\ calls' = <<>>
    /\ UNCHANGED <<cartVars, notifVars, now, analyticsVars, badge, lastOp,
                   callsLeft, form, page, escaped>>

callSetState(newState) ==
    /\ cartState' = setState(cartState, newState)
    /\ calls' = notify("Cart", cartState')
    /\ lastOp' = SetStateOp
    /\ UNCHANGED <<items, totalPrice, stateItemsShared, notifVars, now,
                   analyticsVars, badge, callsLeft, hostVars>>

NextBase ==
    \/ \E o \in ObserverIds : subscribe("Cart", o)
    \/ \E p \in Partials : callSetState(p)

SpecBase == InitCart /\ [][NextBase]_vars

\* the cart with observers subscribed between its calls
NextCartObserved ==
    \/ NextCart
    \/ \E o \in ObserverIds : subscribe("Cart", o)

SpecCartObserved == InitCart /\ [][NextCartObserved]_vars

(***************************************************************************)
(* A caller of the cart that changes what getState() returned.  The        *)
(* snapshot is a new object with the keys of this.state, and its items is  *)
(* the array this.state.items itself, which addItem and removeItem made    *)
(* the array this.items.                                                   *)
(***************************************************************************)

\* the quantity the caller writes into an item of the snapshot
QuantityEdits == {2}

\* the item the caller appends to the items of the snapshot
PushedItems == {[name |-> "Vase", price |-> <<"2", ".", "2", "5">>,
                 quantity |-> 1]}

\* s = cart.getState(); s.totalPrice = value
snapshotAssign(value) ==
    /\ "totalPrice" \in DOMAIN getState(cartState)
    /\ lastOp' = SnapshotAssignOp
    /\ calls' = <<>>
    /\ UNCHANGED <<cartVars, notifVars, now, analyticsVars, badge, callsLeft,
                   hostVars>>

\* the arrays this.state.items and this.items after the array that
\* getState().items refers to has been changed to newItems
snapshotItemsWrite(newItems) ==
    /\ cartState' = [cartState EXCEPT !["items"] = newItems]
    /\ items' = IF stateItemsShared THEN newItems ELSE items
    /\ calls' = <<>>
    /\ UNCHANGED <<totalPrice, stateItemsShared, notifVars, now, analyticsVars,
                   badge, callsLeft, hostVars>>

\* s = cart.getState(); s.items.push(item)
snapshotPush(item) ==
    /\ "items" \in DOMAIN getState(cartState)
    /\ getItemCount(getState(cartState).items) < MaxUnits
    /\ snapshotItemsWrite(Append(getState(cartState).items, item))
    /\ lastOp' = Op("snapshot.items.push", item.name, 0)

\* s = cart.getState(); s.items[i - 1].quantity = quantity
snapshotEdit(i, quantity) ==
    /\ "items" \in DOMAIN getState(cartState)
    /\ i \in 1..Len(getState(cartState).items)
    /\ LET edited == [getState(cartState).items
                         EXCEPT ![i].quantity = quantity]
       IN  /\ getItemCount(edited) <= MaxUnits
           /\ snapshotItemsWrite(edited)
    /\ lastOp' = Op("snapshot.items[i].quantity=", "", i)

NextCaller ==
    \/ \E v \in {Zero} : snapshotAssign(v)
    \/ \E item \in PushedItems : snapshotPush(item)
    \/ \E i \in 1..MaxUnits, q \in QuantityEdits : snapshotEdit(i, q)

SpecSnapshot == InitCart /\ [][NextCart \/ NextCaller]_vars

----------------------------------------------------------------------------
(* Notification *)

\* show(message, type = 'info', duration = 3000)
DefaultDuration == 3000
\* setTimeout(() => toast.classList.add('show'), 10)
ShowClassDelay == 10
\* setTimeout(() => toast.remove(), 300)
DomRemoveDelay == 300

Types == {"success", "error", "warning", "info"}

\* a message: the template text and the values interpolated into it
Msg(text, name, count, total) ==
    [text |-> text, name |-> name, count |-> count, total |-> total]

\* a pending setTimeout callback: kind names the callback, ref the record or
\* toast object its closure holds, id the notification.id it reads
Timer(kind, ref, id, due) == [kind |-> kind, ref |-> ref, id |-> id, due |-> due]

\* this.notifications.filter(n => n.id !== notificationId)
removeFilter(notifs, notificationId) ==
    SelectSeq(notifs, LAMBDA n : n.id # notificationId)

\* the record built by show; ref is the identity of the object (the number
\* of the show call that created it), which is also the toast's
newNotification(message, type) ==
    [id |-> now, message |-> message, type |-> type, timestamp |-> now,
     ref |-> Len(toasts) + 1]

\* the callbacks displayToast registers, then the one show registers
showTimers_noAutoRemove(notification, duration) ==
    << Timer("toastShow", notification.ref, notification.id, now + ShowClassDelay),
       Timer("toastHide", notification.ref, notification.id, now + duration) >>
showTimers(notification, duration) ==
    << Timer("toastShow", notification.ref, notification.id, now + ShowClassDelay),
       Timer("toastHide", notification.ref, notification.id, now + duration),
       Timer("remove", notification.ref, notification.id, now + duration) >>

\* Notification.show(message, type, duration), displayToast included
notification_show(message, type, duration) ==
    LET notification == newNotification(message, type)
    IN  /\ notifications' = Append(notifications, notification)
        /\ notifState' = setState(notifState, [notifications |-> notifications'])
        /\ toasts' = Append(toasts, [type |-> type, message |-> message,
                                     show |-> FALSE, inDom |-> TRUE])
        /\ timers' = timers \o showTimers(notification, duration)

\* Notification.remove(notificationId), on the list and the snapshot
notification_remove(notificationId) ==
    /\ notifications' = removeFilter(notifications, notificationId)
    /\ notifState' = setState(notifState, [notifications |-> notifications'])

\* the record created by the ref-th show call is in the live list
Live(ref) == \E i \in DOMAIN notifications : notifications[i].ref = ref

----------------------------------------------------------------------------
(* The event loop: the clock and the setTimeout callbacks *)

\* the callback the event loop runs next: the earliest due, the first
\* registered among those; 0 when none is due yet
NextTimer ==
    IF \E i \in DOMAIN timers : timers[i].due <= now
    THEN CHOOSE i \in DOMAIN timers :
            /\ \A j \in DOMAIN timers : timers[i].due <= timers[j].due
            /\ \A j \in 1..(i - 1) : timers[j].due # timers[i].due
    ELSE 0

WithoutTimer(i) == [j \in 1..(Len(timers) - 1) |->
                        IF j < i THEN timers[j] ELSE timers[j + 1]]

\* one due callback runs
FireTimer ==
    /\ NextTimer # 0
    /\ LET t == timers[NextTimer]
           rest == WithoutTimer(NextTimer)
       IN  /\ UNCHANGED lastOp
           /\ CASE t.kind = "remove" ->
                     /\ notification_remove(t.id)
                     /\ calls' = notify("Notification", notifState')
                     /\ timers' = rest
                     /\ UNCHANGED toasts
                [] t.kind = "toastShow" ->
                     /\ toasts' = [toasts EXCEPT ![t.ref].show = TRUE]
                     /\ timers' = rest
                     /\ calls' = <<>>
                     /\ UNCHANGED <<notifications, notifState>>
                [] t.kind = "toastHide" ->
                     /\ toasts' = [toasts EXCEPT ![t.ref].show = FALSE]
                     /\ timers' = Append(rest, Timer("toastRemove", t.ref, t.id,
                                                     now + DomRemoveDelay))
                     /\ calls' = <<>>
                     /\ UNCHANGED <<notifications, notifState>>
                [] t.kind = "toastRemove" ->
                     /\ toasts' = [toasts EXCEPT ![t.ref].inDom = FALSE]
                     /\ timers' = rest
                     /\ calls' = <<>>
                     /\ UNCHANGED <<notifications, notifState>>
    /\ UNCHANGED <<cartVars, now, analyticsVars, badge, hostVars, callsLeft>>

\* a millisecond passes
Tick ==
    /\ now < MaxClock
    /\ now' = now + 1
    /\ calls' = <<>>
    /\ UNCHANGED <<cartVars, notifVars, analyticsVars, badge, lastOp, hostVars,
                   callsLeft>>

\* time passes until the next pending callback is due
AdvanceToTimer ==
    /\ timers # <<>>
    /\ \A i \in DOMAIN timers : timers[i].due > now
    /\ \E i \in DOMAIN timers :
          /\ \A j \in DOMAIN timers : timers[i].due <= timers[j].due
          /\ now' = timers[i].due
    /\ calls' = <<>>
    /\ UNCHANGED <<cartVars, notifVars, analyticsVars, badge, lastOp, hostVars,
                   callsLeft>>

\* the callbacks that will remove a toast from the page
PendingCloses ==
    {i \in DOMAIN timers : timers[i].kind = "toastRemove"}

\* a click on the .toast-close button of the ref-th toast, which is in the
\* page; the handler runs whether or not the toast has the class 'show'
ClickClose(ref) ==
    /\ ref \in DOMAIN toasts
    /\ toasts[ref].inDom
    /\ Cardinality(PendingCloses) < MaxPendingCloses
    /\ toasts' = [toasts EXCEPT ![ref].show = FALSE]
    /\ timers' = Append(timers, Timer("toastRemove", ref, 0, now + DomRemoveDelay))
    /\ calls' = <<>>
    /\ UNCHANGED <<cartVars, notifications, notifState, now, analyticsVars, badge,
                   lastOp, hostVars, callsLeft>>

----------------------------------------------------------------------------
(* A Notification on its own *)

InitNotif == InitCart

\* the calls made: show("x", "error", 100) and show("x")
ShowCalls == {[type |-> "error", duration |-> 100],
              [type |-> "info", duration |-> DefaultDuration]}

show(message, type, duration) ==
    /\ Len(toasts) < MaxShows
    /\ now <= MaxClock
    /\ notification_show(message, type, duration)
    /\ calls' = notify("Notification", notifState')
    /\ Spend
    /\ UNCHANGED <<cartVars, now, analyticsVars, badge, lastOp, hostVars>>

\* Notification.remove(notificationId) called from outside (a dismissal)
remove(notificationId) ==
    /\ notification_remove(notificationId)
    /\ UNCHANGED <<toasts, timers>>
    /\ calls' = notify("Notification", notifState')
    /\ Spend
    /\ UNCHANGED <<cartVars, now, analyticsVars, badge, lastOp, hostVars>>

\* the ids a dismissal may name: those of the records created so far
KnownIds == {notifications[i].id : i \in DOMAIN notifications}
              \cup {timers[i].id : i \in DOMAIN timers}

\* the message of the calls of show
ShownMessage == Msg("x", "", 0, Zero)

\* the calls on the Notification, the clicks on the close buttons of the
\* toasts, the clock and the callbacks
NextNotif ==
    \/ \E call \in ShowCalls :
          show(ShownMessage, call.type, call.duration)
    \/ \E notificationId \in KnownIds : remove(notificationId)
    \/ FireTimer
    \/ Tick
    \/ AdvanceToTimer
    \/ \E ref \in DOMAIN toasts : ClickClose(ref)

SpecNotif == InitNotif /\ [][NextNotif]_vars

\* setTimeout callbacks run once they are due, and time passes
SpecNotifFair ==
    /\ InitNotif /\ [][NextNotif]_vars
    /\ WF_vars(FireTimer) /\ WF_vars(AdvanceToTimer)


----------------------------------------------------------------------------
(* Analytics *)

\* this.sessionStart = new Date(), taken when the page is loaded
sessionStart == 0

\* the object passed as eventData when none is given: {}
NoData == [k \in {} |-> ""]

\* Analytics.trackEvent(eventName, eventData)
analytics_trackEvent_keepsLatest(eventName, eventData) ==
    /\ events' = <<[name |-> eventName, data |-> eventData,
                    timestamp |-> now,
                    sessionDuration |-> now - sessionStart]>>
    /\ analyticsState' = setState(analyticsState, [events |-> events'])
    /\ trackCalls' = trackCalls + 1
analytics_trackEvent(eventName, eventData) ==
    /\ events' = Append(events, [name |-> eventName, data |-> eventData,
                                 timestamp |-> now,
                                 sessionDuration |-> now - sessionStart])
    /\ analyticsState' = setState(analyticsState, [events |-> events'])
    /\ trackCalls' = trackCalls + 1

\* Analytics.getReport()
getReport == [totalEvents |-> Len(events),
              sessionDuration |-> now - sessionStart,
              events |-> events]

(***************************************************************************)
(* Analytics on its own: the three tracking calls, at the ticks of the     *)
(* clock.                                                                  *)
(***************************************************************************)

\* the names and data a caller passes to trackEvent
TrackedEvents == {[name |-> "explore_clicked", data |-> NoData],
                  [name |-> "newsletter_failed", data |-> [email |-> "a@b"]]}
Sections == {"products"}

trackEvent(eventName, eventData) ==
    /\ Len(events) < MaxEvents
    /\ analytics_trackEvent(eventName, eventData)
    /\ calls' = notify("Analytics", analyticsState')
    /\ Spend
    /\ UNCHANGED <<cartVars, notifVars, now, badge, lastOp, hostVars>>

\* trackPageView(section)
trackPageView(section) ==
    trackEvent("page_view", [section |-> section])

\* trackProductInteraction(productName, action)
trackProductInteraction(productName, action) ==
    trackEvent("product_interaction",
               [productName |-> productName, action |-> action])

NextTrack ==
    \/ \E e \in TrackedEvents : trackEvent(e.name, e.data)
    \/ \E section \in Sections : trackPageView(section)
    \/ trackProductInteraction("Lamp", "add_to_cart")

NextAnalytics ==
    \/ NextTrack
    \/ Tick

SpecAnalytics == InitCart /\ [][NextAnalytics]_vars

(***************************************************************************)
(* The three components with observers subscribed to them, in a session of *)
(* at most MaxCalls calls on them.                                         *)
(***************************************************************************)

\* the observers subscribed before the session's calls
ObserverSetups ==
    { [Cart |-> <<"f", "g">>, Notification |-> <<"g">>,
       Analytics |-> <<"g", "f">>],
      [Cart |-> <<"f">>, Notification |-> <<"f", "g">>,
       Analytics |-> <<>>] }

InitObserved ==
    /\ items = <<>>
    /\ totalPrice = Zero
    /\ cartState = EmptyState
    /\ notifications = <<>>
    /\ notifState = EmptyState
    /\ toasts = <<>>
    /\ timers = <<>>
    /\ now = 0
    /\ events = <<>>
    /\ analyticsState = EmptyState
    /\ badge = [exists |-> FALSE, textContent |-> 0, display |-> ""]
    /\ lastOp = NewOp
    /\ stateItemsShared = FALSE
    /\ trackCalls = 0
    /\ observers \in ObserverSetups
    /\ calls = <<>>
    /\ callsLeft = MaxCalls
    /\ form = NoForm
    /\ page = NoPage
    /\ escaped = "none"

\* the products and names of the session's cart calls
ObservedProducts == {[name |-> "Lamp", price |-> <<"2", ".", "2", "5">>]}
ObservedNames == {"Lamp", "Vase"}

CartCall ==
    \/ \E product \in ObservedProducts : addItem(product)
    \/ \E productName \in ObservedNames : removeItem(productName)
    \/ clearCart

NotificationCall ==
    \/ \E call \in ShowCalls :
          show(ShownMessage, call.type, call.duration)
    \/ \E notificationId \in KnownIds : remove(notificationId)

\* the auto-removal callback of show is the next callback to run
RemoveTimerDue ==
    /\ NextTimer # 0
    /\ timers[NextTimer].kind = "remove"

AnalyticsCall ==
    \E e \in TrackedEvents : trackEvent(e.name, e.data)

NextObserved ==
    \/ CartCall
    \/ NotificationCall
    \/ AnalyticsCall
    \/ FireTimer
    \/ AdvanceToTimer

SpecObserved == InitObserved /\ [][NextObserved]_vars

-----------------------------------------------------------------------------
(* FormValidator *)

\* the characters \s matches and trim strips, of those a string of the
\* module can hold: space, \t, \n, \r, \f, \v, U+00A0, U+1680 and U+FEFF.
\* The separators U+2000 to U+200A, U+2028, U+2029, U+202F, U+205F and
\* U+3000 cannot be written in a string and are not in the set.
Whitespace ==
    {" ", "\t", "\n", "\r", "\f", "", " ", " ", "﻿"}

\* [^\s@]
IsAddressChar(c) == c \notin Whitespace \cup {"@"}

\* String.prototype.trim
RECURSIVE trimStart(_)
trimStart(value) ==
    IF value # <<>> /\ Head(value) \in Whitespace THEN trimStart(Tail(value))
    ELSE value
RECURSIVE trimEnd(_)
trimEnd(value) ==
    IF value # <<>> /\ value[Len(value)] \in Whitespace
    THEN trimEnd(SubSeq(value, 1, Len(value) - 1))
    ELSE value
trim(value) == trimEnd(trimStart(value))

\* /^[^\s@]+@[^\s@]+\.[^\s@]+$/.test(email): at is the place of the "@",
\* dot the place of the "." the pattern's \. matches
validateEmail(email) ==
    \E at \in 1..Len(email), dot \in 1..Len(email) :
        /\ email[at] = "@"
        /\ email[dot] = "."
        /\ 1 < at
        /\ at + 1 < dot
        /\ dot < Len(email)
        /\ \A i \in 1..Len(email) : i # at => IsAddressChar(email[i])

\* value.trim().length > 0
validateRequired(value) == Len(trim(value)) > 0

\* errors[fieldName] = message
putError(errors, fieldName, message) ==
    [f \in DOMAIN errors \cup {fieldName} |->
        IF f = fieldName THEN message ELSE errors[f]]

\* the body of the loop of validate for one entry of formData
fieldErrors_formatLast(errors, fieldName, value) ==
    LET required == IF ~validateRequired(value)
                    THEN putError(errors, fieldName, "This field is required")
                    ELSE errors
    IN  IF fieldName = "email" /\ ~validateEmail(value)
        THEN putError(required, fieldName, "Invalid email format")
        ELSE required
fieldErrors(errors, fieldName, value) ==
    LET format == IF fieldName = "email" /\ ~validateEmail(value)
                  THEN putError(errors, fieldName, "Invalid email format")
                  ELSE errors
    IN  IF ~validateRequired(value)
        THEN putError(format, fieldName, "This field is required")
        ELSE format

\* for (const [fieldName, value] of Object.entries(formData)) over the
\* fields not visited yet
RECURSIVE validateEntries(_, _, _)
validateEntries(formData, fields, errors) ==
    IF fields = {} THEN errors
    ELSE LET fieldName == CHOOSE f \in fields : TRUE
         IN  validateEntries(formData, fields \ {fieldName},
                             fieldErrors(errors, fieldName, formData[fieldName]))

\* validate(formData)
validate(formData) ==
    LET errors == validateEntries(formData, DOMAIN formData, <<>>)
    IN  [isValid |-> Cardinality(DOMAIN errors) = 0, errors |-> errors]

(***************************************************************************)
(* FormValidator on its own: validate is applied to a form.                *)
(***************************************************************************)

FieldNames == {"email", "name"}

\* "", " ", "\n\t", "a@b.c", " a@b.c", "a\n@b.c", "a@b", "a@.c", "a@b@c.d"
FieldValues ==
    { <<>>, <<" ">>, <<"\n", "\t">>, <<"a", "@", "b", ".", "c">>,
      <<"a", "\n", "@", "b", ".", "c">>,
      <<" ", "a", "@", "b", ".", "c">>, <<"a", "@", "b">>,
      <<"a", "@", ".", "c">>, <<"a", "@", "b", "@", "c", ".", "d">> }

\* the objects with some of the field names as keys and strings as values
FormDatas ==
    UNION {[fields -> FieldValues] : fields \in SUBSET FieldNames}

InitValidate ==
    /\ items = <<>>
    /\ totalPrice = Zero
    /\ cartState = EmptyState
    /\ notifications = <<>>
    /\ notifState = EmptyState
    /\ toasts = <<>>
    /\ timers = <<>>
    /\ now = 0
    /\ events = <<>>
    /\ analyticsState = EmptyState
    /\ badge = [exists |-> FALSE, textContent |-> 0, display |-> ""]
    /\ lastOp = NewOp
    /\ stateItemsShared = FALSE
    /\ trackCalls = 0
    /\ observers = NoObservers
    /\ calls = <<>>
    /\ callsLeft = -1
    /\ \E formData \in FormDatas : form = [NoForm EXCEPT !.data = formData]
    /\ page = NoPage
    /\ escaped = "none"

callValidate ==
    /\ ~form.validated
    /\ form' = [data |-> form.data, result |-> validate(form.data),
                validated |-> TRUE]
    /\ calls' = <<>>
    /\ UNCHANGED <<cartVars, notifVars, now, analyticsVars, badge, lastOp,
                   observers, callsLeft, page, escaped>>

NextValidate == callValidate

SpecValidate == InitValidate /\ [][NextValidate]_vars

----------------------------------------------------------------------------
(* VelouraApp *)

\* updateCartBadge(): the #cart-count element after the call
updateCartBadge(cartCount, count) ==
    IF cartCount.exists
    THEN [exists |-> TRUE, textContent |-> count,
          display |-> IF count > 0 THEN "flex" ELSE "none"]
    ELSE cartCount

\* totalPrice.toFixed(2): the number rounded to two decimals ("NaN" for NaN)
toFixed2(x) ==
    IF x.nan THEN NaN
    ELSE Num(((x.v * 100 + Scale \div 2) \div Scale) * (Scale \div 100))

\* the page after new VelouraApp(): init() tracks 'app_initialized' and
\* updates the badge; the #cart-count element may be missing from the page
InitApp ==
    /\ items = <<>>
    /\ totalPrice = Zero
    /\ cartState = EmptyState
    /\ notifications = <<>>
    /\ notifState = EmptyState
    /\ toasts = <<>>
    /\ timers = <<>>
    /\ now = 0
    /\ events = <<[name |-> "app_initialized", data |-> NoData,
                   timestamp |-> 0, sessionDuration |-> 0]>>
    /\ analyticsState = [events |-> events]
    /\ \E exists \in BOOLEAN :
          badge = updateCartBadge([exists |-> exists, textContent |-> 0,
                                   display |-> ""], 0)
    /\ lastOp = NewOp
    /\ stateItemsShared = FALSE
    /\ trackCalls = 1
    /\ observers = NoObservers
    /\ calls = <<>>
    /\ callsLeft = -1
    /\ form = NoForm
    /\ page \in Pages
    /\ escaped = "none"

\* calls arrive while the model's bounds leave room for what they create
Room(shows, tracked) ==
    /\ now <= MaxClock
    /\ Len(toasts) + shows <= MaxShows
    /\ Len(events) + tracked <= MaxEvents

\* handleAddToCart(productName, productPrice)
handleAddToCart(productName, productPrice) ==
    /\ Room(1, 1)
    /\ getItemCount(items) < MaxUnits
    /\ cart_addItem([name |-> productName, price |-> priceClean(productPrice)])
    /\ notification_show(Msg("added to cart!", productName, 0, Zero),
                         "success", DefaultDuration)
    /\ analytics_trackEvent("product_interaction",
                            [productName |-> productName, action |-> "add_to_cart"])
    /\ badge' = updateCartBadge(badge, getItemCount(items'))
    /\ calls' = notify("Cart", cartState')
                  \o notify("Notification", notifState')
                  \o notify("Analytics", analyticsState')
    /\ lastOp' = Op("handleAddToCart", productName, 0)
    /\ escaped' = "none"
    /\ UNCHANGED <<now, observers, form, page, callsLeft>>

\* the messages that do not depend on the cart or the input
EmptyCartMessage == Msg("Your cart is empty. Start shopping!", "", 0, Zero)
ExploreMessage == Msg("Explore our amazing products!", "", 0, Zero)
InvalidEmailMessage == Msg("Please enter a valid email address", "", 0, Zero)

\* handleViewCart()
handleViewCart ==
    /\ Room(1, 0)
    /\ LET cartData == getCartData(items, totalPrice)
       IN  IF cartData.itemCount = 0
           THEN notification_show(EmptyCartMessage,
                                  "info", DefaultDuration)
           ELSE notification_show(Msg("You have items in cart worth", "",
                                      cartData.itemCount,
                                      toFixed2(cartData.totalPrice)),
                                  "success", DefaultDuration)
    /\ calls' = notify("Notification", notifState')
    /\ lastOp' = HandleViewCartOp
    /\ escaped' = "none"
    /\ UNCHANGED <<cartVars, now, analyticsVars, badge, observers, form, page,
                   callsLeft>>

\* window.clearCart()
windowClearCart ==
    /\ cart_clearCart
    /\ calls' = notify("Cart", cartState')
    /\ lastOp' = WindowClearCartOp
    /\ escaped' = "none"
    /\ UNCHANGED <<notifVars, now, analyticsVars, badge, observers, form, page,
                   callsLeft>>

\* updateCartBadge() called on its own
callUpdateCartBadge ==
    /\ badge' = updateCartBadge(badge, getItemCount(items))
    /\ badge' # badge
    /\ calls' = <<>>
    /\ lastOp' = UpdateCartBadgeOp
    /\ escaped' = "none"
    /\ UNCHANGED <<cartVars, notifVars, now, analyticsVars, observers, form,
                   page, callsLeft>>

\* handleExplore()
handleExplore ==
    /\ Room(IF page.products THEN 1 ELSE 0, 1)
    /\ analytics_trackEvent("explore_clicked", NoData)
    /\ IF page.products
       THEN notification_show(ExploreMessage,
                              "info", DefaultDuration)
       ELSE UNCHANGED notifVars
    /\ calls' = notify("Analytics", analyticsState')
                  \o (IF page.products
                      THEN notify("Notification", notifState') ELSE <<>>)
    /\ lastOp' = HandleExploreOp
    /\ escaped' = "none"
    /\ UNCHANGED <<cartVars, now, badge, observers, form, page, callsLeft>>

\* the string of the characters
RECURSIVE join(_)
join(chars) == IF chars = <<>> THEN "" ELSE Head(chars) \o join(Tail(chars))

\* the user types into #email-input
TypedEmails == { <<" ", "a", "@", "b", ".", "c">> }
typeEmail(value) ==
    /\ page.emailInput
    /\ page.email # value
    /\ page' = [page EXCEPT !.email = value]
    /\ calls' = <<>>
    /\ UNCHANGED <<cartVars, notifVars, now, analyticsVars, badge, lastOp,
                   observers, form, callsLeft, escaped>>

\* handleSubscribe(): without #email-input, emailInput is null and
\* emailInput.value throws a TypeError out of the handler
handleSubscribe ==
    /\ lastOp' = HandleSubscribeOp
    /\ UNCHANGED <<cartVars, now, badge, observers, form, callsLeft>>
    /\ IF ~page.emailInput
       THEN /\ escaped' = "TypeError"
            /\ calls' = <<>>
            /\ UNCHANGED <<notifVars, analyticsVars, page>>
       ELSE LET email == trim(page.email)
            IN  /\ Room(1, 1)
                /\ IF ~validateEmail(email)
                   THEN /\ notification_show(
                               InvalidEmailMessage,
                               "error", DefaultDuration)
                        /\ analytics_trackEvent("newsletter_failed",
                                                [email |-> join(email)])
                        /\ UNCHANGED page
                   ELSE /\ notification_show(
                               Msg("Successfully subscribed with",
                                   join(email), 0, Zero),
                               "success", DefaultDuration)
                        /\ analytics_trackEvent("newsletter_subscribed",
                                                [email |-> join(email)])
                        /\ page' = [page EXCEPT !.email = <<>>]
                /\ calls' = notify("Notification", notifState')
                              \o notify("Analytics", analyticsState')
                /\ escaped' = "none"

\* the scroll listener of setupNavbarScroll: without .navbar-custom, navbar
\* is null and navbar.style throws a TypeError out of the listener
ScrollTops == {0, 150}
ScrollShadowFrom == 100
onScroll(scrollTop) ==
    /\ IF ~page.navbar
       THEN /\ escaped' = "TypeError"
            /\ UNCHANGED page
       ELSE /\ page' = [page EXCEPT !.shadow =
                           IF scrollTop > ScrollShadowFrom
                           THEN "0 10px 30px rgba(0, 0, 0, 0.3)"
                           ELSE "var(--shadow-lg)"]
            /\ escaped' = "none"
    /\ calls' = <<>>
    /\ lastOp' = Op("scroll", "", scrollTop)
    /\ UNCHANGED <<cartVars, notifVars, now, analyticsVars, badge, observers,
                   form, callsLeft>>

\* the product cards of the page
PageNames == {"Lamp", "Vase"}
PagePriceTexts == { <<"$", "1", "9", "9", ".", "5", "0">>,
                    <<"1", ",", "5", "0", "0">>,
                    <<"f", "r", "e", "e">> }

\* the entry points of the page, the clicks on the close buttons of the
\* toasts, the clock and the callbacks
NextApp ==
    \/ \E productName \in PageNames, productPrice \in PagePriceTexts :
          handleAddToCart(productName, productPrice)
    \/ handleViewCart
    \/ windowClearCart
    \/ callUpdateCartBadge
    \/ handleExplore
    \/ \E value \in TypedEmails : typeEmail(value)
    \/ handleSubscribe
    \/ \E scrollTop \in ScrollTops : onScroll(scrollTop)
    \/ FireTimer
    \/ Tick
    \/ AdvanceToTimer
    \/ \E ref \in DOMAIN toasts : ClickClose(ref)

SpecApp == InitApp /\ [][NextApp]_vars

----------------------------------------------------------------------------
(* Claims about the Cart *)

\* the sum over the lines S of its of price x quantity, taken line by line
RECURSIVE LineSum(_, _)
LineSum(its, S) ==
    IF S = {} THEN Zero
    ELSE LET i == CHOOSE x \in S : TRUE
         IN  Add(Times(parseFloat(its[i].price), its[i].quantity),
                 LineSum(its, S \ {i}))

\* the sum over the lines S of its of the quantities
RECURSIVE QuantitySum(_, _)
QuantitySum(its, S) ==
    IF S = {} THEN 0
    ELSE LET i == CHOOSE x \in S : TRUE
         IN  its[i].quantity + QuantitySum(its, S \ {i})

\* C1: after any sequence of addItem, removeItem and clearCart on a new
\* Cart, totalPrice is the sum over the current items of price x quantity.
C1_TotalIsSumOfLines == totalPrice = LineSum(items, DOMAIN items)

\* a removal has left two or more units in the cart, with a positive total
C1_Witness ==
    /\ lastOp.op = "removeItem"
    /\ \E i \in DOMAIN items : items[i].quantity >= 2
    /\ ~totalPrice.nan
    /\ totalPrice.v > 0

\* C2: the cart never holds two items of the same name, and every item
\* has quantity >= 1.
C2_OneItemPerNameQuantityPositive ==
    /\ \A i, j \in DOMAIN items : items[i].name = items[j].name => i = j
    /\ \A i \in DOMAIN items : items[i].quantity >= 1

\* a name was added again while another item was in the cart
C2_Witness ==
    /\ lastOp.op = "addItem"
    /\ Len(items) = 2
    /\ \E i \in DOMAIN items :
          items[i].name = lastOp.name /\ items[i].quantity = 2

\* C3: addItem of a name in the cart adds 1 to that item's quantity, keeps
\* its stored price whatever price the call carries, and adds no item;
\* addItem of a new name appends one item of quantity 1.  Adding a name a
\* second time to a cart holding only that name once gives one item of
\* quantity 2 and a total of twice the stored (first) price.
C3_AddItemAggregatesByName ==
    [][\A product \in Products :
          addItem(product) =>
            /\ IF \E i \in DOMAIN items : items[i].name = product.name
               THEN /\ Len(items') = Len(items)
                    /\ \A i \in DOMAIN items :
                          IF items[i].name = product.name
                          THEN items'[i] = [name |-> items[i].name,
                                            price |-> items[i].price,
                                            quantity |-> items[i].quantity + 1]
                          ELSE items'[i] = items[i]
               ELSE items' = items \o <<[name |-> product.name,
                                         price |-> product.price,
                                         quantity |-> 1]>>
            /\ (Len(items) = 1 /\ items[1].name = product.name
                               /\ items[1].quantity = 1)
                 => /\ Len(items') = 1
                    /\ items'[1].quantity = 2
                    /\ totalPrice' = Times(parseFloat(items[1].price), 2)
      ]_vars

\* the same name was added twice: one item of quantity 2, total twice its price
C3_Witness ==
    /\ lastOp.op = "addItem"
    /\ Len(items) = 1
    /\ items[1].name = lastOp.name
    /\ items[1].quantity = 2
    /\ ~totalPrice.nan
    /\ totalPrice.v = 2 * parseFloat(items[1].price).v
    /\ totalPrice.v > 0

\* C4: removeItem of a name that no item has, compared case-sensitively,
\* leaves the items and totalPrice as they were.
C4_RemoveAbsentChangesNothing ==
    [][\A productName \in Names :
          (removeItem(productName)
             /\ \A i \in DOMAIN items : items[i].name # productName)
          => (items' = items /\ totalPrice' = totalPrice)
      ]_vars

\* removeItem was called with a name that differs only in case from the
\* name of an item, and that item is still there
C4_Witness ==
    /\ lastOp.op = "removeItem"
    /\ \E i \in DOMAIN items :
          /\ items[i].name # lastOp.name
          /\ Lower(items[i].name) = Lower(lastOp.name)
    /\ totalPrice = LineSum(items, DOMAIN items)
    /\ ~totalPrice.nan
    /\ totalPrice.v > 0

\* C5: getItemCount() is the sum of the quantities of the current items, 0
\* for an empty cart, and getCartData().itemCount is that same sum.
C5_ItemCountIsQuantitySum ==
    /\ getItemCount(items) = QuantitySum(items, DOMAIN items)
    /\ getCartData(items, totalPrice).itemCount = QuantitySum(items, DOMAIN items)
    /\ (items = <<>> => getItemCount(items) = 0)

\* two line items holding three units
C5_Witness ==
    /\ Len(items) = 2
    /\ getItemCount(items) = 3
    /\ getCartData(items, totalPrice).itemCount = 3

----------------------------------------------------------------------------
(* Claims about the Notification *)

\* C7: once a record has been dismissed with Notification.remove(its id),
\* the list holds no record of that id; its auto-removal callback, running
\* later, removes no record and leaves the list as it was; and removing an
\* id that no record has leaves the list as it was.
C7_StaleTimerIsNoOp ==
    [][/\ \A notificationId \in KnownIds :
             remove(notificationId) =>
               /\ \A i \in DOMAIN notifications' :
                     notifications'[i].id # notificationId
               /\ (\A i \in DOMAIN notifications :
                      notifications[i].id # notificationId)
                    => notifications' = notifications
       /\ (FireTimer /\ NextTimer # 0
                     /\ timers[NextTimer].kind = "remove"
                     /\ ~Live(timers[NextTimer].ref))
            => notifications' = notifications
      ]_vars

\* C8: no two records in the live list share an id.
C8_IdsUnique ==
    \A i, j \in DOMAIN notifications :
        notifications[i].id = notifications[j].id => i = j

\* C9: every record created by show is eventually out of the live list, and
\* a record that has left the live list never is in it again. (A record is
\* out of the list some time after every moment it is in it exactly when it
\* is out of the list again and again.)
C9_RemovedEventuallyAndForGood ==
    /\ \A ref \in 1..MaxShows : []<>(~Live(ref))
    /\ [][\A ref \in DOMAIN toasts : ~Live(ref) => ~Live(ref)']_vars

\* the auto-removal callback of the second record has run, both records
\* were created and neither is live
C9_Witness ==
    /\ Len(toasts) = 2
    /\ notifState = [notifications |-> <<>>]
    /\ ~Live(1)
    /\ ~Live(2)
    /\ \A i \in DOMAIN timers : timers[i].kind # "remove"

\* C10: a click on the close button of a toast removes the toast's record
\* from the live list at once, and a toast that has left the page never has
\* its record in the live list.
C10_CloseClickDismisses ==
    [][/\ \A ref \in DOMAIN toasts : ClickClose(ref) => ~Live(ref)'
       /\ \A ref \in DOMAIN toasts : ~toasts[ref].inDom => ~Live(ref)
      ]_vars

----------------------------------------------------------------------------
(* Claims about the application *)

\* the price of an item as C6 reads it: 0 when the text is not numeric
RECURSIVE LineSumZeroed(_, _)
LineSumZeroed(its, S) ==
    IF S = {} THEN 0
    ELSE LET i == CHOOSE x \in S : TRUE
             p == parseFloat(its[i].price)
         IN  (IF p.nan THEN 0 ELSE p.v * its[i].quantity)
                + LineSumZeroed(its, S \ {i})

\* C6: an item added from a price text that is not numeric after stripping
\* counts with unit price 0: totalPrice stays a number, the sum of
\* price x quantity over the other items.
C6_MalformedPriceCountsAsZero ==
    /\ ~totalPrice.nan
    /\ totalPrice.v = LineSumZeroed(items, DOMAIN items)

\* C11: setState(partial) leaves a snapshot in which every key of partial has
\* partial's value and every other key that was present keeps its value, and
\* in the same call every observer subscribed so far is invoked exactly once,
\* in subscription order, each with the new full snapshot.
C11_SetStateMergesThenNotifiesAll ==
    [][\A p \in Partials :
          callSetState(p) =>
              /\ DOMAIN cartState' = DOMAIN cartState \cup DOMAIN p
              /\ \A k \in DOMAIN p : cartState'[k] = p[k]
              /\ \A k \in DOMAIN cartState \ DOMAIN p :
                     cartState'[k] = cartState[k]
              /\ Len(calls') = Len(observers["Cart"])
              /\ \A i \in 1..Len(calls') :
                     /\ calls'[i].component = "Cart"
                     /\ calls'[i].observer = observers["Cart"][i]
                     /\ calls'[i].state = cartState']_vars

\* a setState that kept earlier keys, with two observers invoked in order
C11_Witness ==
    /\ lastOp.op = "setState"
    /\ \A key \in DOMAIN cartState : key = "theme" \/ key = "lang" \/ key = "totalPrice"
    /\ "theme" \in DOMAIN cartState /\ "lang" \in DOMAIN cartState
    /\ "totalPrice" \in DOMAIN cartState
    /\ Len(calls) = 2
    /\ calls[1].observer = "g"
    /\ calls[2].observer = "f"

\* C12: a change the caller makes to the value getState() returned, or to
\* the items list reachable from it, leaves the cart's items, its totalPrice
\* and its stored snapshot unchanged.
C12_SnapshotChangesStayOutside ==
    [][NextCaller =>
          /\ items' = items
          /\ totalPrice' = totalPrice
          /\ cartState' = cartState]_vars

\* C13: every tracking call appends exactly one event, with the name and data
\* it was given, at the end of the log; no step removes, reorders or alters
\* an event that is in the log; and getReport().totalEvents is always the
\* number of trackEvent calls made so far.
C13_EventLogAppendOnly ==
    /\ [](getReport.totalEvents = trackCalls)
    /\ [][/\ Len(events') >= Len(events)
          /\ SubSeq(events', 1, Len(events)) = events
          /\ \A e \in TrackedEvents :
                 trackEvent(e.name, e.data) =>
                     /\ Len(events') = Len(events) + 1
                     /\ events'[Len(events')].name = e.name
                     /\ events'[Len(events')].data = e.data
                     /\ trackCalls' = trackCalls + 1
          /\ NextTrack => Len(events') = Len(events) + 1]_vars

\* three tracked events of different kinds, the last after a tick
C13_Witness ==
    /\ Len(events) = 3
    /\ trackCalls = 3
    /\ events[1].name = "page_view"
    /\ events[2].name = "newsletter_failed"
    /\ events[3].name = "product_interaction"
    /\ events[3].timestamp > events[1].timestamp

\* C14: validate returns isValid = true exactly when errors is empty; errors
\* has an entry for a field exactly when the field is empty after trimming or
\* is the field "email" with a value that fails the email format; a field
\* empty after trimming gets "This field is required", "email" included, and
\* a non-empty "email" that fails the format gets "Invalid email format".
C14_ValidateErrors ==
    form.validated =>
        LET errors == form.result.errors
        IN  /\ form.result.isValid <=> (DOMAIN errors = {})
            /\ DOMAIN errors \subseteq DOMAIN form.data
            /\ \A f \in DOMAIN form.data :
                   LET value == form.data[f]
                       empty == trim(value) = <<>>
                       badEmail == f = "email" /\ ~validateEmail(value)
                   IN  /\ f \in DOMAIN errors <=> (empty \/ badEmail)
                       /\ empty => errors[f] = "This field is required"
                       /\ (badEmail /\ ~empty) =>
                              errors[f] = "Invalid email format"

\* a blank email was reported as required and the name was accepted
C14_Witness ==
    /\ form.validated
    /\ "email" \in DOMAIN form.data /\ "name" \in DOMAIN form.data
    /\ form.data.email = <<" ">> /\ form.data.name = <<"a", "@", "b">>
    /\ ~form.result.isValid
    /\ DOMAIN form.result.errors = {"email"}
    /\ form.result.errors["email"] = "This field is required"

\* C15: when an entry point of the page that changes the cart (add-to-cart
\* handling, the global clearCart) returns, the navbar badge, if the page has
\* one, displays Cart.getItemCount() and is hidden exactly when it is 0.
C15_BadgeFollowsCart ==
    [][(\/ windowClearCart
        \/ \E productName \in PageNames, productPrice \in PagePriceTexts :
              handleAddToCart(productName, productPrice))
       => (badge'.exists =>
              /\ badge'.textContent = getItemCount(items')
              /\ badge'.display = "none" <=> getItemCount(items') = 0)]_vars

\* C16: no entry point of the page lets an error escape: with an optional
\* element absent (badge, products section, email input, navbar) the handler
\* skips what depends on it and completes normally.
C16_NoErrorEscapes == escaped = "none"

\* C17: removeItem(name) removes the whole line item whatever its quantity
\* and leaves every other item's name, price, quantity and relative order
\* unchanged; removing the only item of a cart, as in addItem(Lamp),
\* addItem(Lamp), removeItem(Lamp) on an empty cart, leaves no items,
\* totalPrice 0 and itemCount 0.
C17_RemoveItemRemovesWholeLine ==
    [][\A productName \in Names :
          removeItem(productName) =>
              LET named(i) == items[i].name = productName
                  before(i) == Cardinality({j \in 1..i : named(j)})
                  others == {i \in DOMAIN items : ~named(i)}
              IN  /\ \A k \in DOMAIN items' : items'[k].name # productName
                  /\ Len(items') = Cardinality(others)
                  /\ \A i \in others : items'[i - before(i)] = items[i]
                  /\ others = {} =>
                         /\ items' = <<>>
                         /\ totalPrice' = Zero
                         /\ getCartData(items', totalPrice').itemCount = 0
      ]_vars

\* removeItem("Lamp") left the Vase line with its quantity of 2
C17_Witness ==
    /\ lastOp.op = "removeItem" /\ lastOp.name = "Lamp"
    /\ Len(items) = 1
    /\ items[1].name = "Vase"
    /\ items[1].quantity = 2

\* C18: a record stays in the live list until its own auto-removal timer
\* fires or a dismissal names its id; the timer or the dismissal of another
\* record, such as one shown in the same clock tick with a shorter duration,
\* never removes it.
C18_OnlyOwnTimerOrDismissalRemoves ==
    [][\A ref \in DOMAIN toasts :
          (Live(ref) /\ ~Live(ref)') =>
              \/ /\ FireTimer
                 /\ NextTimer # 0
                 /\ timers[NextTimer].kind = "remove"
                 /\ timers[NextTimer].ref = ref
              \/ \E i \in DOMAIN notifications :
                    /\ notifications[i].ref = ref
                    /\ remove(notifications[i].id)]_vars

\* C19: every snapshot a Cart observer is invoked with has items equal to the
\* cart's current items and totalPrice equal to the sum of price x quantity
\* over them (the totals are recomputed before addItem, removeItem and
\* clearCart publish), and after a cart mutation getState() agrees with
\* getCartData() on items and totalPrice.
C19_PublishedSnapshotIsCurrent ==
    /\ \A i \in DOMAIN calls :
          /\ calls[i].component = "Cart"
          /\ calls[i].state.items = items
          /\ calls[i].state.totalPrice = LineSum(items, DOMAIN items)
    /\ lastOp.op \in {"addItem", "removeItem", "clearCart"} =>
          /\ getState(cartState).items = getCartData(items, totalPrice).items
          /\ getState(cartState).totalPrice
                = getCartData(items, totalPrice).totalPrice

\* two observers were invoked by an addItem that raised a quantity to 2
C19_Witness ==
    /\ lastOp.op = "addItem"
    /\ Len(calls) = 2
    /\ calls[1].observer # calls[2].observer
    /\ \E i \in DOMAIN items : items[i].quantity = 2
    /\ calls[2].state.totalPrice = totalPrice
    /\ ~totalPrice.nan /\ totalPrice.v > 0

\* the invocations of the step are those of the observers of the component,
\* one for each in subscription order, and of no other observer
InvokesOnly(component) ==
    /\ Len(calls') = Len(observers[component])
    /\ \A i \in DOMAIN calls' :
          /\ calls'[i].component = component
          /\ calls'[i].observer = observers[component][i]

\* C20: every call of Cart.addItem, removeItem, clearCart, Notification.show,
\* remove and Analytics.trackEvent invokes each observer of that component
\* exactly once, also when the call changes nothing (removeItem of an absent
\* name, remove of an absent id, a stale auto-removal callback after a
\* dismissal), and invokes no observer of another component.
C20_EachCallNotifiesOwnObserversOnce ==
    [][/\ CartCall => InvokesOnly("Cart")
       /\ NotificationCall => InvokesOnly("Notification")
       /\ (FireTimer /\ RemoveTimerDue) => InvokesOnly("Notification")
       /\ AnalyticsCall => InvokesOnly("Analytics")]_vars

\* addItem("Lamp") and then removeItem("Vase"), a name not in the cart, which
\* invoked the cart's two observers while the others have observers too
C20_Witness ==
    /\ callsLeft = MaxCalls - 2
    /\ lastOp.op = "removeItem" /\ lastOp.name = "Vase"
    /\ Len(items) = 1
    /\ Len(calls) = 2
    /\ calls[1].observer = "f" /\ calls[2].observer = "g"
    /\ observers["Notification"] # <<>>
    /\ observers["Analytics"] # <<>>

====
